---- MODULE Spec2Model ----
(***************************************************************************)
(* A model of abipy/boltztrap/boltztrap.py: the AbipyBoltztrap wrapper     *)
(* (lazy properties, from_sigeph, compute_equivalences,                    *)
(* compute_coefficients, run) and the Boltztrap2Results container (lazy    *)
(* Fermi integrals and Onsager coefficients).                              *)
(*                                                                         *)
(* One action is one call made by a user of the two classes; the nested    *)
(* calls of the handler are part of the action.  The routines of the       *)
(* external BoltzTraP2 library (get_equivalences, fitde3D, getBTPbands,    *)
(* BTPDOS, fermiintegrals, calc_Onsager_coefficients) either raise or      *)
(* return; which of the two, and which value, is chosen by \E.  Numerical  *)
(* arrays are represented by the symbolic name of what they were computed  *)
(* from.  Python lists are sequences, python index i is position i + 1.    *)
(***************************************************************************)
EXTENDS Integers, Sequences, FiniteSets, TLC

\* largest number of temperatures of a sigeph source / of a linewidths list
MaxTemps == 2
\* largest number of invocations of one underlying computation in an execution
MaxCalls == 2
\* largest number of times an external routine raises in an execution
MaxFaults == 2

VARIABLES
    bt,       \* the AbipyBoltztrap instance
    res,      \* the Boltztrap2Results instance returned by the last run
    exc,      \* the exception the last call ended with, "none" if it returned
    ret,      \* the value the last call returned
    last,     \* the last call: its name, its arguments, whether it found its cache
    calls,    \* number of invocations of each underlying computation
    started,  \* external computations started so far
    done,     \* external computations completed so far
    ctx,      \* for each started computation, what was completed at its first start
    faults    \* number of times an external routine has raised

vars == <<bt, res, exc, ret, last, calls, started, done, ctx, faults>>

-----------------------------------------------------------------------------
(* Python values *)

\* None, or a list
PyNone == [isNone |-> TRUE, items |-> <<>>]
PyList(s) == [isNone |-> FALSE, items |-> s]

\* truth value of None or of a list, as tested by "if self.linewidths:"
Truthy(x) == ~x.isNone /\ Len(x.items) > 0

\* a value that is either an array or a list of arrays
PyArray(a) == [tag |-> "array", val |-> <<a>>]
PyArrays(s) == [tag |-> "list", val |-> s]
PyAbsent == [tag |-> "none", val |-> <<>>]

-----------------------------------------------------------------------------
(* Symbolic arrays *)

\* the eigenvalues, the linewidths / temperature / chemical potential of
\* source temperature t
Eig == <<"eig", 0>>
Lw(t) == <<"lw", t>>
Temp(t) == <<"T", t>>
Mu(t) == <<"mu", t>>
NoTau == <<"none", 0>>

\* the values sphere.get_equivalences can return: a list of stars, each star
\* the set of its lattice points
EquivChoices ==
    << << {<<0, 0, 0>>} >>,
       << {<<0, 0, 0>>}, {<<1, 0, 0>>, <<-1, 0, 0>>}, {<<2, 0, 1>>, <<-2, 0, -1>>} >> >>

\* fite.fitde3D(data, equivalences): the coefficients of data.ebands
fitde3D(ebands, equivalences) == [q |-> ebands, eq |-> equivalences]

\* fite.getBTPbands(equivalences, coeffs, lattvec): bands, velocities, curvature
getBTPbands(equivalences, coeffs, lattvec) ==
    [fine |-> coeffs.q, vv |-> coeffs.q, cband |-> coeffs.q]

\* tau_fine = 1.0/np.abs(2*linewidth_fine*eV_s)
TauFine(linewidth_fine) == linewidth_fine

\* BL.BTPDOS(eig, vvband, scattering_model): wmesh, dos, vvdos
BTPDOS(eig_fine, vvband, tau) ==
    [wmesh |-> <<"wmesh", 0>>,
     dos |-> [e |-> eig_fine, tau |-> tau],
     vvdos |-> [e |-> eig_fine, vv |-> vvband, tau |-> tau]]

Max(a, b) == IF a >= b THEN a ELSE b
SetMax(S) == CHOOSE m \in S : \A x \in S : x <= m

-----------------------------------------------------------------------------
(* The events of the pipeline and the invocation counters *)

EvEquiv == <<"equiv", 0>>
EvFit(i) == <<"fit", i>>         \* 0: the energy fit, i: linewidth fit of temperature i-1
EvRecon(i) == <<"recon", i>>     \* 0: energy bands, i: linewidths of temperature i-1
EvDos(i) == <<"dos", i>>         \* 0: plain DOS, i: tau-weighted DOS of temperature i-1
EvFermi == <<"fermi", 0>>
EvOnsager == <<"onsager", 0>>

Events ==
    {EvEquiv, EvFermi, EvOnsager}
        \cup {EvFit(i) : i \in 0..MaxTemps}
        \cup {EvRecon(i) : i \in 0..MaxTemps}
        \cup {EvDos(i) : i \in 0..MaxTemps}

Comps == {"get_equivalences", "compute_coefficients", "get_interpolation_mesh",
          "fermiintegrals", "calc_Onsager_coefficients"}

\* the world a handler runs in: the variables, threaded through its steps
World == [bt |-> bt, res |-> res, exc |-> "none", ret |-> <<>>,
          calls |-> calls, started |-> started, done |-> done, ctx |-> ctx,
          faults |-> faults]

OK(w) == w.exc = "none"
Raise(w, e) == [w EXCEPT !.exc = e]
Return(w, v) == [w EXCEPT !.ret = v]
\* an external routine raises
Fault(w, e) == [w EXCEPT !.exc = e, !.faults = @ + 1]

\* the counters tell apart never, once and more than once
Count(w, c) == [w EXCEPT !.calls[c] = @ + 1]
Start(w, e) ==
    [w EXCEPT !.started = @ \cup {e},
              !.ctx[e] = IF e \in w.started THEN @ ELSE w.done]
Finish(w, e) == [w EXCEPT !.done = @ \cup {e}]

\* sequencing: the world a step leaves, computed once, is what the rest of the
\* handler runs in
Bind(w, rest(_)) == rest(w)

-----------------------------------------------------------------------------
(* class AbipyBoltztrap *)

NoObject ==
    [made |-> FALSE,
     inp |-> [fermi |-> "fermi", atoms |-> "atoms", nelect |-> "nelect",
              kpoints |-> "kpoints", eig |-> Eig, volume |-> "volume",
              linewidths |-> PyNone, tmesh |-> PyNone, mumesh |-> PyNone,
              bstart |-> PyNone, bstop |-> PyNone, lpratio |-> 1, nworkers |-> 1],
     attrs |-> {},
     ebands |-> Eig,
     equivalences_ |-> <<>>,
     coefficients_ |-> fitde3D(Eig, <<>>),
     linewidth_coefficients_ |-> <<>>,
     rmesh_ |-> <<0, 0, 0>>]

\* __init__: stores its arguments, whatever they are
AbipyBoltztrap(linewidths, tmesh, mumesh, lpratio) ==
    [NoObject EXCEPT !.made = TRUE,
                     !.inp.linewidths = linewidths,
                     !.inp.tmesh = tmesh,
                     !.inp.mumesh = mumesh,
                     !.inp.lpratio = lpratio]

\* ntemps: len(self.linewidths)
ntemps(b) == Len(b.inp.linewidths.items)

\* compute_equivalences, wrapped by timeit; eo = 0: get_equivalences raises,
\* eo = k: it returns EquivChoices[k]
compute_equivalences(w, eo) ==
    IF ~OK(w) THEN w
    ELSE LET w1 == Count(Start(w, EvEquiv), "get_equivalences")
         IN IF eo = 0 THEN Fault(w1, "get_equivalences")
            ELSE [Finish(w1, EvEquiv) EXCEPT
                     !.bt.equivalences_ = EquivChoices[eo],
                     !.bt.attrs = @ \cup {"_equivalences", "time_compute_equivalences"}]

\* equivalences without the hasattr guard: every access recomputes
equivalences_unguarded(w, eo) ==
    IF ~OK(w) THEN w
    ELSE Bind(compute_equivalences(w, eo), LAMBDA w1 :
            IF OK(w1) THEN Return(w1, w1.bt.equivalences_) ELSE w1)

\* property equivalences
equivalences(w, eo) ==
    IF ~OK(w) THEN w
    ELSE Bind(IF "_equivalences" \notin w.bt.attrs
              THEN compute_equivalences(w, eo) ELSE w, LAMBDA w1 :
            IF OK(w1) THEN Return(w1, w1.bt.equivalences_) ELSE w1)

\* one call fite.fitde3D(self, self.equivalences, ...) of compute_coefficients:
\* the arguments are evaluated, then the k-th fit of the handler runs; it
\* raises when ff = k
Fit(w, eo, ff, k) ==
    Bind(equivalences(w, eo), LAMBDA w1 :
       IF ~OK(w1) THEN w1
       ELSE LET w2 == Start(w1, EvFit(k - 1))
            IN IF ff = k THEN Fault(w2, "fitde3D")
               ELSE Return(Finish(w2, EvFit(k - 1)),
                           fitde3D(w2.bt.ebands, w2.bt.equivalences_)))

\* the loop "for itemp in range(self.ntemps)" of compute_coefficients, from itemp on
RECURSIVE LinewidthFits(_, _, _, _)
LinewidthFits(w, eo, ff, itemp) ==
    IF ~OK(w) \/ itemp >= ntemps(w.bt) THEN w
    ELSE LET w1 == [w EXCEPT !.bt.ebands = w.bt.inp.linewidths.items[itemp + 1]]
         IN Bind(Fit(w1, eo, ff, itemp + 2), LAMBDA w2 :
               IF ~OK(w2) THEN w2
               ELSE LinewidthFits(
                        [w2 EXCEPT !.bt.linewidth_coefficients_ = Append(@, w2.ret)],
                        eo, ff, itemp + 1))

\* compute_coefficients, wrapped by timeit
compute_coefficients(w, eo, ff) ==
    IF ~OK(w) THEN w
    ELSE LET w0 == Count(w, "compute_coefficients")
             w1 == [w0 EXCEPT !.bt.ebands = w0.bt.inp.eig,
                              !.bt.attrs = @ \cup {"ebands"}]
         IN Bind(Fit(w1, eo, ff, 1), LAMBDA w2 :
               IF ~OK(w2) THEN w2
               ELSE LET w3 == [w2 EXCEPT !.bt.coefficients_ = w2.ret,
                                         !.bt.attrs = @ \cup {"_coefficients"}]
                    IN Bind(IF Truthy(w3.bt.inp.linewidths)
                            THEN LinewidthFits(
                                     [w3 EXCEPT !.bt.linewidth_coefficients_ = <<>>,
                                                !.bt.attrs = @ \cup {"_linewidth_coefficients"}],
                                     eo, ff, 0)
                            ELSE w3, LAMBDA w4 :
                          IF ~OK(w4) THEN w4
                          ELSE [w4 EXCEPT !.bt.ebands = NoObject.ebands,
                                          !.bt.attrs =
                                             (@ \ {"ebands"}) \cup {"time_compute_coefficients"}]))

\* property coefficients
coefficients(w, eo, ff) ==
    IF ~OK(w) THEN w
    ELSE Bind(IF "_coefficients" \notin w.bt.attrs
              THEN compute_coefficients(w, eo, ff) ELSE w, LAMBDA w1 :
            IF OK(w1) THEN Return(w1, w1.bt.coefficients_) ELSE w1)

\* property lattvec
lattvec(w) ==
    IF ~OK(w) THEN w
    ELSE Return([w EXCEPT !.bt.attrs = @ \cup {"_lattvec"}], <<"lattvec", 0>>)

\* get_interpolation_mesh
StarMax(star, d) == SetMax({p[d] : p \in star})
RECURSIVE MeshMax(_, _, _)
MeshMax(equivs, d, i) ==
    IF i > Len(equivs) THEN 0
    ELSE Max(StarMax(equivs[i], d), MeshMax(equivs, d, i + 1))

get_interpolation_mesh(w, eo) ==
    IF ~OK(w) THEN w
    ELSE Bind(equivalences(Count(w, "get_interpolation_mesh"), eo), LAMBDA w1 :
            IF ~OK(w1) THEN w1
            ELSE LET eq == w1.bt.equivalences_
                     m == <<2 * MeshMax(eq, 1, 1) + 1, 2 * MeshMax(eq, 2, 1) + 1,
                            2 * MeshMax(eq, 3, 1) + 1>>
                 IN Return([w1 EXCEPT !.bt.rmesh_ = m,
                                      !.bt.attrs = @ \cup {"_rmesh"}], m))

\* property rmesh
rmesh(w, eo) ==
    IF ~OK(w) THEN w
    ELSE Bind(IF "_rmesh" \notin w.bt.attrs
              THEN get_interpolation_mesh(w, eo) ELSE w, LAMBDA w1 :
            IF OK(w1) THEN Return(w1, w1.bt.rmesh_) ELSE w1)

\* property nequivalences
nequivalences(w, eo) ==
    Bind(equivalences(w, eo), LAMBDA w1 :
       IF OK(w1) THEN Return(w1, Len(w1.ret)) ELSE w1)

\* property ncoefficients
ncoefficients(w, eo, ff) ==
    Bind(coefficients(w, eo, ff), LAMBDA w1 :
       IF OK(w1) THEN Return(w1, <<"len", w1.ret>>) ELSE w1)

\* __str__
str(w, eo) ==
    Bind(nequivalences(w, eo), LAMBDA w1 :
       Bind(rmesh(w1, eo), LAMBDA w2 :
          IF OK(w2) THEN Return(w2, <<w1.ret, w2.ret>>) ELSE w2))

\* from_sigeph(sigeph, itemp_list): sigeph has ntemp temperatures, itl is None or
\* a list of temperature indices.  The module imports numpy, abinit_units and
\* time only, so evaluating duck.list_ints raises NameError.
range(n) == [i \in 1..n |-> i - 1]

from_sigeph(ntemp, itl) ==
    IF ~itl.isNone
    THEN [exc |-> "NameError", obj |-> NoObject]
    ELSE LET itemp_list == range(ntemp)
             n == Len(itemp_list)
             tmesh == [i \in 1..n |-> Temp(itemp_list[i])]
             mumesh == [i \in 1..n |-> Mu(itemp_list[i])]
             linewidths == [i \in 1..n |-> Lw(itemp_list[i])]
         IN [exc |-> "none",
             obj |-> AbipyBoltztrap(PyList(linewidths), PyList(tmesh), PyList(mumesh), 1)]

-----------------------------------------------------------------------------
(* class Boltztrap2Results *)

NoResults ==
    [made |-> FALSE,
     wmesh |-> <<"wmesh", 0>>,
     dos |-> [e |-> Eig, tau |-> NoTau],
     vvdos |-> [e |-> Eig, vv |-> Eig, tau |-> NoTau],
     mumesh |-> PyNone, tmesh |-> PyNone, volume |-> "volume",
     dos_tau_temps |-> PyAbsent, vvdos_tau_temps |-> PyAbsent,
     attrs |-> {},
     L0_ |-> {}, L1_ |-> {}, L2_ |-> {}, Lm11_ |-> {},
     sigma_ |-> <<>>, seebeck_ |-> <<>>, kappa_ |-> <<>>, hall_ |-> <<>>]

\* __init__
Boltztrap2Results(wmesh, dos, vvdos, mumesh, volume, dos_tau_temps, vvdos_tau_temps, tmesh) ==
    [NoResults EXCEPT !.made = TRUE, !.wmesh = wmesh, !.dos = dos, !.vvdos = vvdos,
                      !.mumesh = mumesh, !.volume = volume, !.tmesh = tmesh,
                      !.dos_tau_temps = dos_tau_temps,
                      !.vvdos_tau_temps = vvdos_tau_temps]

\* a new result object replaces the one the last run returned; the counters and
\* the events of the Fermi integrals and the Onsager coefficients are those of
\* the instance
NewResults(w, o) ==
    [w EXCEPT !.res = o,
              !.calls["fermiintegrals"] = 0,
              !.calls["calc_Onsager_coefficients"] = 0,
              !.started = @ \ {EvFermi, EvOnsager},
              !.done = @ \ {EvFermi, EvOnsager},
              !.ctx[EvFermi] = {},
              !.ctx[EvOnsager] = {}]

\* the loop "for itemp in range(self.ntemps)" of run, from itemp on; loc holds
\* the local variables of run; the k-th external call of run raises when rf = k
RECURSIVE TauLoop(_, _, _, _, _)
TauLoop(w, loc, eo, rf, itemp) ==
    IF ~OK(w) \/ itemp >= ntemps(w.bt) THEN [w |-> w, loc |-> loc]
    ELSE Bind(equivalences(w, eo), LAMBDA w1 :
         LET lwc == w1.bt.linewidth_coefficients_
             w2 == IF ~OK(w1) THEN w1
                   ELSE IF "_linewidth_coefficients" \notin w1.bt.attrs
                        THEN Raise(w1, "AttributeError")
                        ELSE IF itemp >= Len(lwc) THEN Raise(w1, "IndexError")
                             ELSE lattvec(w1)
         IN IF ~OK(w2) THEN [w |-> w2, loc |-> loc]
            ELSE LET w3 == Start(w2, EvRecon(itemp + 1))
                 IN IF rf = 3 + 2 * itemp
                    THEN [w |-> Fault(w3, "getBTPbands"), loc |-> loc]
                    ELSE LET results == getBTPbands(w3.bt.equivalences_, lwc[itemp + 1],
                                                    <<"lattvec", 0>>)
                             w4 == Start(Finish(w3, EvRecon(itemp + 1)), EvDos(itemp + 1))
                             loc1 == [loc EXCEPT !.vvband = results.vv]
                         IN IF rf = 4 + 2 * itemp
                            THEN [w |-> Fault(w4, "BTPDOS"), loc |-> loc1]
                            ELSE LET d == BTPDOS(loc1.eig_fine, loc1.vvband,
                                                 TauFine(results.fine))
                                 IN TauLoop(
                                        Finish(w4, EvDos(itemp + 1)),
                                        [loc1 EXCEPT
                                            !.wmesh = d.wmesh,
                                            !.dos_tau = <<d.dos>>,
                                            !.dos_tau_temps = Append(@, d.dos),
                                            !.vvdos_tau_temps = <<Append(@[1], d.vvdos)>>],
                                        eo, rf, itemp + 1))

\* run, wrapped by timeit.  An unbound local variable is the empty sequence,
\* a bound one the sequence of its value.
run(w, eo, ff, rf) ==
    Bind(lattvec(coefficients(equivalences(w, eo), eo, ff)), LAMBDA w1 :
    IF ~OK(w1) THEN w1
    ELSE
    LET w2 == Start(w1, EvRecon(0))
    IN IF rf = 1 THEN Fault(w2, "getBTPbands")
       ELSE
    LET results == getBTPbands(w2.bt.equivalences_, w2.bt.coefficients_, <<"lattvec", 0>>)
        w3 == Start(Finish(w2, EvRecon(0)), EvDos(0))
    IN IF rf = 2 THEN Fault(w3, "BTPDOS")
       ELSE
    LET d == BTPDOS(results.fine, results.vv, NoTau)
        w4 == Finish(w3, EvDos(0))
        loc0 == [eig_fine |-> results.fine, vvband |-> results.vv,
                 wmesh |-> d.wmesh, dos |-> d.dos, vvdos |-> d.vvdos,
                 dos_tau |-> <<>>, dos_tau_temps |-> <<>>, vvdos_tau_temps |-> <<>>]
    IN Bind(IF Truthy(w4.bt.inp.linewidths)
            THEN TauLoop(w4, [loc0 EXCEPT !.vvdos_tau_temps = << <<>> >>], eo, rf, 0)
            ELSE [w |-> w4, loc |-> loc0], LAMBDA r :
    LET w5 == r.w
        loc == r.loc
    IN IF ~OK(w5) THEN w5
       ELSE IF loc.dos_tau = <<>> \/ loc.vvdos_tau_temps = <<>>
            THEN Raise(w5, "UnboundLocalError")
            ELSE LET o == Boltztrap2Results(loc.wmesh, loc.dos, loc.vvdos,
                                            w5.bt.inp.mumesh, w5.bt.inp.volume,
                                            PyArray(loc.dos_tau[1]),
                                            PyArrays(loc.vvdos_tau_temps[1]),
                                            w5.bt.inp.tmesh)
                 IN Return([NewResults(w5, o) EXCEPT !.bt.attrs = @ \cup {"time_run"}],
                           "results")))

\* the (T, mu) points of the mesh of a result object
Points(r) ==
    {<<iT, imu>> : iT \in 0..(Len(r.tmesh.items) - 1),
                   imu \in 0..(Len(r.mumesh.items) - 1)}

\* what BL.fermiintegrals can do: raise, or return the moments, L0 being
\* singular nowhere or at the first point of the mesh, as the DOS decides
FermiOutcomes(r) ==
    {[raise |-> TRUE, sing |-> {}]}
        \cup {[raise |-> FALSE, sing |-> S] : S \in {{}, {<<0, 0>>}}}

FermiSlots == {"_L0", "_L1", "_L2"}

\* the outcomes of fermiintegrals a call can reach: it is called only when one
\* of the slots the call reads is absent
FermiReach(r, slots) ==
    IF slots \subseteq r.attrs THEN {[raise |-> FALSE, sing |-> {}]} ELSE FermiOutcomes(r)

\* what BL.calc_Onsager_coefficients can do: raise, or return, with a value
\* that is not a valid one ("nan": non-finite, or substituted) where L0 is
\* singular
OnsagerOutcomes == {"raise", "nan"}
OnsagerReach(r, slots) == IF slots \subseteq r.attrs THEN {"nan"} ELSE OnsagerOutcomes

\* the outcomes of one call: calc_Onsager_coefficients is reached when
\* fermiintegrals returns
OnsagerScripts(fermi, onsager) ==
    {o \in fermi \X onsager : o[1].raise => o[2] = "nan"}

\* the outcomes of reading the Onsager slot: nothing is called when it is present
SlotScripts(r, slot) ==
    OnsagerScripts(FermiReach(r, IF slot \in r.attrs THEN {} ELSE FermiSlots),
                   OnsagerReach(r, {slot}))

\* compute_fermiintegrals storing the moments it uses and dropping Lm11
compute_fermiintegrals_without_Lm11(w, fo) ==
    IF ~OK(w) THEN w
    ELSE LET w1 == Count(Start(w, EvFermi), "fermiintegrals")
         IN IF fo.raise THEN Fault(w1, "fermiintegrals")
            ELSE [Finish(w1, EvFermi) EXCEPT
                     !.res.L0_ = fo.sing, !.res.L1_ = fo.sing, !.res.L2_ = fo.sing,
                     !.res.attrs = @ \cup {"_L0", "_L1", "_L2"}]

\* compute_fermiintegrals
compute_fermiintegrals(w, fo) ==
    IF ~OK(w) THEN w
    ELSE LET w1 == Count(Start(w, EvFermi), "fermiintegrals")
         IN IF fo.raise THEN Fault(w1, "fermiintegrals")
            ELSE [Finish(w1, EvFermi) EXCEPT
                     !.res.L0_ = fo.sing, !.res.L1_ = fo.sing,
                     !.res.L2_ = fo.sing, !.res.Lm11_ = fo.sing,
                     !.res.attrs = @ \cup {"_L0", "_L1", "_L2", "_Lm11"}]

\* properties L0, L1, L2
L0(w, fo) ==
    IF ~OK(w) THEN w
    ELSE Bind(IF "_L0" \notin w.res.attrs THEN compute_fermiintegrals(w, fo) ELSE w,
              LAMBDA w1 : IF OK(w1) THEN Return(w1, w1.res.L0_) ELSE w1)

L1(w, fo) ==
    IF ~OK(w) THEN w
    ELSE Bind(IF "_L1" \notin w.res.attrs THEN compute_fermiintegrals(w, fo) ELSE w,
              LAMBDA w1 : IF OK(w1) THEN Return(w1, w1.res.L1_) ELSE w1)

L2(w, fo) ==
    IF ~OK(w) THEN w
    ELSE Bind(IF "_L2" \notin w.res.attrs THEN compute_fermiintegrals(w, fo) ELSE w,
              LAMBDA w1 : IF OK(w1) THEN Return(w1, w1.res.L2_) ELSE w1)

\* BL.calc_Onsager_coefficients(L0, L1, L2, mumesh, tmesh, volume) when it
\* returns: sigma is L0 / volume, the others need the inverse of L0
calc_Onsager_coefficients(r, l0, oo) ==
    [sigma |-> [p \in Points(r) |-> IF p \in l0 THEN "singular" ELSE "valid"],
     other |-> [p \in Points(r) |-> IF p \in l0 THEN oo ELSE "valid"]]

\* compute_onsager_coefficients
compute_onsager_coefficients(w, fo, oo) ==
    Bind(L2(L1(L0(w, fo), fo), fo), LAMBDA w1 :
       IF ~OK(w1) THEN w1
       ELSE LET w2 == Count(Start(w1, EvOnsager), "calc_Onsager_coefficients")
                l0 == w2.res.L0_
            IN IF oo = "raise" THEN Fault(w2, "calc_Onsager_coefficients")
               ELSE LET results == calc_Onsager_coefficients(w2.res, l0, oo)
                    IN [Finish(w2, EvOnsager) EXCEPT
                           !.res.sigma_ = results.sigma,
                           !.res.seebeck_ = results.other,
                           !.res.kappa_ = results.other,
                           !.res.hall_ = results.other,
                           !.res.attrs = @ \cup {"_sigma", "_seebeck", "_kappa", "_hall"}])

\* properties sigma, seebeck, kappa
sigma(w, fo, oo) ==
    IF ~OK(w) THEN w
    ELSE Bind(IF "_sigma" \notin w.res.attrs
              THEN compute_onsager_coefficients(w, fo, oo) ELSE w, LAMBDA w1 :
            IF OK(w1) THEN Return(w1, w1.res.sigma_) ELSE w1)

seebeck(w, fo, oo) ==
    IF ~OK(w) THEN w
    ELSE Bind(IF "_seebeck" \notin w.res.attrs
              THEN compute_onsager_coefficients(w, fo, oo) ELSE w, LAMBDA w1 :
            IF OK(w1) THEN Return(w1, w1.res.seebeck_) ELSE w1)

kappa(w, fo, oo) ==
    IF ~OK(w) THEN w
    ELSE Bind(IF "_kappa" \notin w.res.attrs
              THEN compute_onsager_coefficients(w, fo, oo) ELSE w, LAMBDA w1 :
            IF OK(w1) THEN Return(w1, w1.res.kappa_) ELSE w1)

-----------------------------------------------------------------------------
(* The calls a user makes *)

NoCall == [op |-> "none", hit |-> FALSE, ntemp |-> 0, itemp_list |-> PyNone]
Call(op, hit) == [NoCall EXCEPT !.op = op, !.hit = hit]

\* the arguments of the constructors
LinewidthInputs == {PyNone} \cup {PyList([i \in 1..n |-> Lw(i - 1)]) : n \in 0..MaxTemps}
TmeshFor(lw) ==
    IF Truthy(lw) THEN PyList([i \in 1..Len(lw.items) |-> Temp(i - 1)]) ELSE PyNone
MumeshFor(lw) ==
    IF Truthy(lw) THEN PyList([i \in 1..Len(lw.items) |-> Mu(i - 1)]) ELSE PyNone
LpratioInputs == {0, 1}
ItempLists(ntemp) ==
    {PyNone} \cup {PyList(s) : s \in UNION {[1..n -> 0..(ntemp - 1)] : n \in 1..MaxTemps}}

\* the outcomes of the external routines a call can reach: get_equivalences
\* (0: raises, k: returns EquivChoices[k]), the fits of compute_coefficients
\* (0: none raises, k: the k-th raises), the external calls of run (likewise)
EquivOutcomes(b) ==
    IF "_equivalences" \in b.attrs THEN {1} ELSE 0..Len(EquivChoices)
NFits(b) == IF Truthy(b.inp.linewidths) THEN 1 + ntemps(b) ELSE 1
FitOutcomes(b) == IF "_coefficients" \in b.attrs THEN {0} ELSE 0..NFits(b)
RunOutcomes(b) == 0..(2 * NFits(b))

\* the outcomes of one call, a routine that is not reached having none: the
\* fits are reached when get_equivalences returns, the external calls of run
\* when every fit returns
FitScripts(b, fits) ==
    {o \in EquivOutcomes(b) \X fits : o[1] = 0 => o[2] = 0}
RunScripts(b) ==
    {o \in EquivOutcomes(b) \X FitOutcomes(b) \X RunOutcomes(b) :
        /\ o[1] = 0 => o[2] = 0
        /\ (o[1] = 0 \/ o[2] # 0) => o[3] = 0}

\* the state a call leaves
Commit(result, call) ==
    \E w \in {result} :
       /\ \A c \in Comps : w.calls[c] <= MaxCalls
       /\ w.faults <= MaxFaults
       /\ bt' = w.bt
       /\ res' = w.res
       /\ exc' = w.exc
       /\ ret' = IF OK(w) THEN w.ret ELSE <<>>
       /\ last' = call
       /\ calls' = w.calls
       /\ started' = w.started
       /\ done' = w.done
       /\ ctx' = w.ctx
       /\ faults' = w.faults

Init ==
    /\ bt = NoObject
    /\ res = NoResults
    /\ exc = "none"
    /\ ret = <<>>
    /\ last = NoCall
    /\ calls = [c \in Comps |-> 0]
    /\ started = {}
    /\ done = {}
    /\ ctx = [e \in Events |-> {}]
    /\ faults = 0

CallInit ==
    /\ ~bt.made
    /\ \E lw \in LinewidthInputs, lp \in LpratioInputs :
          Commit([World EXCEPT !.bt = AbipyBoltztrap(lw, TmeshFor(lw), MumeshFor(lw), lp)],
                 Call("__init__", FALSE))

CallFromSigeph ==
    /\ ~bt.made
    /\ \E ntemp \in 1..MaxTemps :
          \E itl \in ItempLists(ntemp) :
             LET r == from_sigeph(ntemp, itl)
             IN Commit([World EXCEPT !.bt = r.obj, !.exc = r.exc],
                       [op |-> "from_sigeph", hit |-> FALSE, ntemp |-> ntemp,
                        itemp_list |-> itl])

GetEquivalences ==
    /\ bt.made
    /\ \E eo \in EquivOutcomes(bt) :
          Commit(equivalences(World, eo),
                 Call("equivalences", "_equivalences" \in bt.attrs))

GetCoefficients ==
    /\ bt.made
    /\ \E o \in FitScripts(bt, FitOutcomes(bt)) :
          Commit(coefficients(World, o[1], o[2]),
                 Call("coefficients", "_coefficients" \in bt.attrs))

GetRmesh ==
    /\ bt.made
    /\ \E eo \in EquivOutcomes(bt) :
          Commit(rmesh(World, eo), Call("rmesh", "_rmesh" \in bt.attrs))

GetNequivalences ==
    /\ bt.made
    /\ \E eo \in EquivOutcomes(bt) :
          Commit(nequivalences(World, eo),
                 Call("nequivalences", "_equivalences" \in bt.attrs))

GetNcoefficients ==
    /\ bt.made
    /\ \E o \in FitScripts(bt, FitOutcomes(bt)) :
          Commit(ncoefficients(World, o[1], o[2]),
                 Call("ncoefficients", "_coefficients" \in bt.attrs))

CallStr ==
    /\ bt.made
    /\ \E eo \in EquivOutcomes(bt) :
          Commit(str(World, eo),
                 Call("__str__", {"_equivalences", "_rmesh"} \subseteq bt.attrs))

GetLattvec ==
    /\ bt.made
    /\ Commit(lattvec(World), Call("lattvec", "_lattvec" \in bt.attrs))

CallRun ==
    /\ bt.made
    /\ \E o \in RunScripts(bt) :
          Commit(run(World, o[1], o[2], o[3]), Call("run", FALSE))

CallComputeEquivalences ==
    /\ bt.made
    /\ \E eo \in 0..Len(EquivChoices) :
          Commit(compute_equivalences(World, eo), Call("compute_equivalences", FALSE))

CallComputeCoefficients ==
    /\ bt.made
    /\ \E o \in FitScripts(bt, 0..NFits(bt)) :
          Commit(compute_coefficients(World, o[1], o[2]),
                 Call("compute_coefficients", FALSE))

CallGetInterpolationMesh ==
    /\ bt.made
    /\ \E eo \in EquivOutcomes(bt) :
          Commit(get_interpolation_mesh(World, eo), Call("get_interpolation_mesh", FALSE))

GetL0 ==
    /\ res.made
    /\ \E fo \in FermiReach(res, {"_L0"}) :
          Commit(L0(World, fo), Call("L0", "_L0" \in res.attrs))

GetL1 ==
    /\ res.made
    /\ \E fo \in FermiReach(res, {"_L1"}) :
          Commit(L1(World, fo), Call("L1", "_L1" \in res.attrs))

GetL2 ==
    /\ res.made
    /\ \E fo \in FermiReach(res, {"_L2"}) :
          Commit(L2(World, fo), Call("L2", "_L2" \in res.attrs))

GetSigma ==
    /\ res.made
    /\ \E o \in SlotScripts(res, "_sigma") :
          Commit(sigma(World, o[1], o[2]), Call("sigma", "_sigma" \in res.attrs))

GetSeebeck ==
    /\ res.made
    /\ \E o \in SlotScripts(res, "_seebeck") :
          Commit(seebeck(World, o[1], o[2]), Call("seebeck", "_seebeck" \in res.attrs))

GetKappa ==
    /\ res.made
    /\ \E o \in SlotScripts(res, "_kappa") :
          Commit(kappa(World, o[1], o[2]), Call("kappa", "_kappa" \in res.attrs))

CallComputeFermiintegrals ==
    /\ res.made
    /\ \E fo \in FermiOutcomes(res) :
          Commit(compute_fermiintegrals(World, fo), Call("compute_fermiintegrals", FALSE))

CallComputeOnsagerCoefficients ==
    /\ res.made
    /\ \E o \in OnsagerScripts(FermiReach(res, FermiSlots), OnsagerOutcomes) :
          Commit(compute_onsager_coefficients(World, o[1], o[2]),
                 Call("compute_onsager_coefficients", FALSE))

\* the result objects run can return
InitResults ==
    \E n \in 1..MaxTemps :
       LET lw == PyList([i \in 1..n |-> Lw(i - 1)])
           w0 == [bt |-> AbipyBoltztrap(lw, TmeshFor(lw), MumeshFor(lw), 1),
                  res |-> NoResults, exc |-> "none", ret |-> <<>>,
                  calls |-> [c \in Comps |-> 0], started |-> {}, done |-> {},
                  ctx |-> [e \in Events |-> {}], faults |-> 0]
       IN \E w \in {run(w0, 1, 0, 0)} :
          /\ bt = w.bt
          /\ res = w.res
          /\ exc = "none"
          /\ ret = "results"
          /\ last = Call("run", FALSE)
          /\ calls = w.calls
          /\ started = w.started
          /\ done = w.done
          /\ ctx = w.ctx
          /\ faults = 0

\* the calls on an AbipyBoltztrap
Next ==
    \/ CallInit
    \/ CallFromSigeph
    \/ GetEquivalences
    \/ GetCoefficients
    \/ GetRmesh
    \/ GetNequivalences
    \/ GetNcoefficients
    \/ CallStr
    \/ GetLattvec
    \/ CallRun
    \/ CallComputeEquivalences
    \/ CallComputeCoefficients
    \/ CallGetInterpolationMesh

Spec == Init /\ [][Next]_vars

\* the calls on a Boltztrap2Results
NextResults ==
    \/ GetL0
    \/ GetL1
    \/ GetL2
    \/ GetSigma
    \/ GetSeebeck
    \/ GetKappa
    \/ CallComputeFermiintegrals
    \/ CallComputeOnsagerCoefficients

SpecResults == InitResults /\ [][NextResults]_vars

\* the executions that reach the derived outputs of both objects from a fresh
\* instance: through the properties, and through run, which reads them
Access ==
    \/ CallInit
    \/ CallFromSigeph
    \/ GetEquivalences
    \/ GetCoefficients
    \/ GetRmesh
    \/ GetNequivalences
    \/ GetNcoefficients
    \/ CallStr
    \/ CallRun
    \/ GetL0
    \/ GetL1
    \/ GetL2
    \/ GetSigma
    \/ GetSeebeck
    \/ GetKappa

SpecAccess == Init /\ [][Access]_vars

-----------------------------------------------------------------------------
(* The claims *)

\* the exceptions raised by the external routines
ExternalErrors == {"get_equivalences", "fitde3D", "getBTPbands", "BTPDOS",
                   "fermiintegrals", "calc_Onsager_coefficients"}

FermiGroup == {"_L0", "_L1", "_L2", "_Lm11"}
OnsagerGroup == {"_sigma", "_seebeck", "_kappa", "_hall"}

\* C1: when run returns for an instance with linewidths of N temperatures, the
\* result holds a list of N tau-weighted DOS and a list of N tau-weighted
\* vvdos, entry i accumulated from the energies with the relaxation time of
\* temperature i.
C1_OnePairPerTemperature ==
    (last.op = "run" /\ exc = "none" /\ Truthy(bt.inp.linewidths)) =>
        LET n == ntemps(bt)
            lw == bt.inp.linewidths.items
            d == res.dos_tau_temps
            v == res.vvdos_tau_temps
        IN /\ d.tag = "list" /\ Len(d.val) = n
           /\ \A i \in 1..n : d.val[i].e = Eig /\ d.val[i].tau = TauFine(lw[i])
           /\ v.tag = "list" /\ Len(v.val) = n
           /\ \A i \in 1..n : v.val[i].e = Eig /\ v.val[i].tau = TauFine(lw[i])

\* C2: for an instance constructed with linewidths None or empty, a run in
\* which no external routine raises returns a result with wmesh, dos and vvdos
\* and without tau-weighted pairs.
C2_RunWithoutLinewidths ==
    (last.op = "run" /\ ~Truthy(bt.inp.linewidths) /\ exc \notin ExternalErrors) =>
        /\ exc = "none"
        /\ res.made
        /\ res.dos = BTPDOS(Eig, Eig, NoTau).dos
        /\ res.vvdos = BTPDOS(Eig, Eig, NoTau).vvdos
        /\ res.dos_tau_temps.tag # "array"
        /\ res.dos_tau_temps.val = <<>>
        /\ res.vvdos_tau_temps.val = <<>>

\* C3: after a call in which a fit of compute_coefficients raised, neither
\* _coefficients nor a _linewidth_coefficients list shorter than ntemps is
\* cached.
C3_FailedFitLeavesNothing ==
    exc = "fitde3D" =>
        /\ "_coefficients" \notin bt.attrs
        /\ ~("_linewidth_coefficients" \in bt.attrs
                /\ Len(bt.linewidth_coefficients_) < ntemps(bt))

\* C4: every call that runs compute_coefficients, whether it returns or a fit
\* raises, leaves the instance without the ebands attribute and with the
\* constructor-supplied fields unchanged.
C4_ScratchAlwaysUnset ==
    [][(/\ calls'["compute_coefficients"] # calls["compute_coefficients"]
        /\ exc' \in {"none", "fitde3D"}) =>
          ("ebands" \notin bt'.attrs /\ bt'.inp = bt.inp)]_vars

\* C5: in every state reachable by accesses to L0, L1, L2, sigma, seebeck, kappa
\* and calls of compute_fermiintegrals and compute_onsager_coefficients, also
\* those in which the external routine raises, the slots _L0, _L1, _L2, _Lm11
\* are all present or all absent, and so are _sigma, _seebeck, _kappa, _hall.
C5_GroupsCachedAtomically ==
    /\ (FermiGroup \cap res.attrs) \in {{}, FermiGroup}
    /\ (OnsagerGroup \cap res.attrs) \in {{}, OnsagerGroup}

\* C5, its case: calc_Onsager_coefficients has raised after the Fermi integrals
\* were cached by an earlier call, and no Onsager slot is present.
C5_Witness ==
    /\ res.made
    /\ exc = "calc_Onsager_coefficients"
    /\ last.op = "compute_onsager_coefficients"
    /\ FermiGroup \subseteq res.attrs
    /\ OnsagerGroup \cap res.attrs = {}

\* C6, as stated: over the accesses to the properties of one AbipyBoltztrap and
\* one Boltztrap2Results each underlying computation is invoked at most once.
C6_InvokedAtMostOnce == \A c \in Comps : calls[c] <= 1

\* the cache slot of each underlying computation, with its value
SlotOf ==
    [c \in Comps |->
        CASE c = "get_equivalences" -> "_equivalences"
          [] c = "compute_coefficients" -> "_coefficients"
          [] c = "get_interpolation_mesh" -> "_rmesh"
          [] c = "fermiintegrals" -> "_L0"
          [] c = "calc_Onsager_coefficients" -> "_sigma"]
Cached(c, b, r) ==
    IF c \in {"fermiintegrals", "calc_Onsager_coefficients"}
    THEN SlotOf[c] \in r.attrs ELSE SlotOf[c] \in b.attrs
\* the step keeps the result object: a run that returns replaces it by a new one
SameResults == last'.op # "run" \/ exc' # "none"

\* C6, amended: once the cache slot of an underlying computation is stored, no
\* access invokes the computation again and the stored value never changes
\* (before that, an invocation that raised is repeated by the next access);
\* every access that returns, returns the value stored in its slot.
C6_CachedNeverRecomputed ==
    [][/\ \A c \in {"get_equivalences", "compute_coefficients", "get_interpolation_mesh"} :
             Cached(c, bt, res) => (Cached(c, bt', res') /\ calls'[c] = calls[c])
       /\ "_equivalences" \in bt.attrs => bt'.equivalences_ = bt.equivalences_
       /\ "_coefficients" \in bt.attrs => bt'.coefficients_ = bt.coefficients_
       /\ "_rmesh" \in bt.attrs => bt'.rmesh_ = bt.rmesh_
       /\ SameResults =>
             /\ \A c \in {"fermiintegrals", "calc_Onsager_coefficients"} :
                   Cached(c, bt, res) => (Cached(c, bt', res') /\ calls'[c] = calls[c])
             /\ "_L0" \in res.attrs =>
                   <<res'.L0_, res'.L1_, res'.L2_>> = <<res.L0_, res.L1_, res.L2_>>
             /\ "_sigma" \in res.attrs =>
                   <<res'.sigma_, res'.seebeck_, res'.kappa_>>
                       = <<res.sigma_, res.seebeck_, res.kappa_>>
       /\ exc' = "none" =>
             /\ last'.op = "equivalences" => ret' = bt'.equivalences_
             /\ last'.op = "nequivalences" => ret' = Len(bt'.equivalences_)
             /\ last'.op = "coefficients" => ret' = bt'.coefficients_
             /\ last'.op = "ncoefficients" => ret' = <<"len", bt'.coefficients_>>
             /\ last'.op = "rmesh" => ret' = bt'.rmesh_
             /\ last'.op = "__str__" => ret' = <<Len(bt'.equivalences_), bt'.rmesh_>>
             /\ last'.op = "L0" => ret' = res'.L0_
             /\ last'.op = "L1" => ret' = res'.L1_
             /\ last'.op = "L2" => ret' = res'.L2_
             /\ last'.op = "sigma" => ret' = res'.sigma_
             /\ last'.op = "seebeck" => ret' = res'.seebeck_
             /\ last'.op = "kappa" => ret' = res'.kappa_
      ]_vars

\* C6, its case: every underlying computation has been invoked, the last access
\* found its slot stored and returned the stored value.
C6_Witness ==
    /\ last.op = "kappa" /\ last.hit /\ exc = "none"
    /\ ret = res.kappa_
    /\ \A c \in Comps : Cached(c, bt, res) /\ calls[c] >= 1

\* C7: from_sigeph succeeds for itemp_list None and for every list of valid
\* temperature indices, and the linewidths, tmesh and mumesh of the constructed
\* input have one entry per selected index, in the order of the selection, entry
\* i taken from source temperature itemp_list[i].
C7_FromSigephSelection ==
    last.op = "from_sigeph" =>
        LET sel == IF last.itemp_list.isNone THEN range(last.ntemp)
                   ELSE last.itemp_list.items
            n == Len(sel)
        IN /\ exc = "none"
           /\ bt.made
           /\ bt.inp.linewidths = PyList([i \in 1..n |-> Lw(sel[i])])
           /\ bt.inp.tmesh = PyList([i \in 1..n |-> Temp(sel[i])])
           /\ bt.inp.mumesh = PyList([i \in 1..n |-> Mu(sel[i])])

\* C8: no AbipyBoltztrap exists with lpratio < 1: the constructor rejects it, so
\* that no stage is started with that value.
C8_LpratioRejected ==
    /\ bt.made => bt.inp.lpratio >= 1
    /\ EvEquiv \in started => bt.inp.lpratio >= 1

\* the calls that compute the Onsager coefficients, when they find no cache
OnsagerOps == {"sigma", "seebeck", "kappa", "compute_onsager_coefficients"}

\* C9: when calc_Onsager_coefficients was invoked by the last call with L0
\* singular at some point, an error is signalled for that point, no NaN or
\* substituted value is stored for it, and valid values are stored at every
\* other point.
C9_SingularPointReported ==
    (/\ last.op \in OnsagerOps /\ ~last.hit
     /\ exc \in {"none", "calc_Onsager_coefficients"}
     /\ FermiGroup \subseteq res.attrs
     /\ res.L0_ # {}) =>
        /\ exc = "calc_Onsager_coefficients"
        /\ OnsagerGroup \subseteq res.attrs
        /\ \A p \in Points(res) \ res.L0_ :
              res.seebeck_[p] = "valid" /\ res.kappa_[p] = "valid"
        /\ \A p \in res.L0_ : res.seebeck_[p] # "nan" /\ res.kappa_[p] # "nan"

\* C10: the equivalences are computed before the first fit starts, the energy
\* fit and the linewidth fit of every temperature have completed before the
\* first reconstruction starts, the energy reconstruction precedes every DOS
\* accumulation, and the Fermi integrals are computed before the Onsager
\* coefficients.
AllFits(b) == {EvFit(k) : k \in 0..(NFits(b) - 1)}
C10_StrictStageOrder ==
    /\ \A i \in 0..MaxTemps :
          /\ EvFit(i) \in started => EvEquiv \in ctx[EvFit(i)]
          /\ EvRecon(i) \in started => AllFits(bt) \subseteq ctx[EvRecon(i)]
          /\ EvDos(i) \in started => EvRecon(0) \in ctx[EvDos(i)]
    /\ EvOnsager \in started => EvFermi \in ctx[EvOnsager]

====
